---- MODULE Spec2Model ----
(***************************************************************************)
(* Model of utils/llvm-bolt-wrapper.py: a wrapper that runs a base and a   *)
(* comparison build of llvm-bolt on the same arguments, compares exit      *)
(* codes, logs and output binaries, records timing and decides pass/fail.  *)
(*                                                                         *)
(* Representation.  A text (captured stdout/stderr, a file of lines) is    *)
(* the sequence of its lines, so str.splitlines() is the sequence itself;  *)
(* a line is the sequence of its whitespace-separated words, so            *)
(* str.split() is the sequence itself.  A path is the sequence of its      *)
(* components.  A binary file is the sequence of its bytes.  Python's None *)
(* and the empty tuple/list are both the empty sequence (both are falsy).  *)
(***************************************************************************)
EXTENDS Integers, Sequences, FiniteSets, TLC

VARIABLES
    cfg,            \* the [config] section: the boolean options (lines 58-63)
    p2b,            \* basename(sys.argv[0]) == 'perf2bolt' (line 94)
    argv,           \* the caller's command line, as argparse sees it
    pc,             \* position of main() (a line number label)
    args,           \* main(): args
    cmp_args,       \* main(): cmp_args
    unknownargs,    \* main(): unknownargs
    tmp,            \* main(): tmp, the workspace path (<<>> before mkdtemp)
    tmp_exists,     \* whether the workspace directory exists on disk
    tmp_files,      \* files written into the workspace: name -> content
    main_bolt,      \* Popen object of the base run
    cmp_bolt,       \* Popen object of the comparison run
    main_out, main_err, cmp_out, cmp_err,   \* what wait() returned
    out, err,       \* results of the two compare_logs calls (lines 216-217)
    main_binary, cmp_binary,                \* lines 229-230
    binaries,       \* the two output files as cmp/open/readelf find them
    timing_file,    \* content of TIMING_FILE, a sequence of records
    stdout, stderr, \* what the wrapper itself has printed
    exit_status,    \* the wrapper's process exit status (-1 while running)
    exit_msg,       \* how the wrapper ended ("" while running)
    cl_main, cl_cmp, cl_skip_end,   \* arguments of a compare_logs call
    cl_result,      \* its return value
    cl_pc           \* "off", "call" or "ret"

vars == <<cfg, p2b, argv, pc, args, cmp_args, unknownargs, tmp, tmp_exists,
          tmp_files, main_bolt, cmp_bolt, main_out, main_err, cmp_out,
          cmp_err, out, err, main_binary, cmp_binary, binaries, timing_file,
          stdout, stderr, exit_status, exit_msg,
          cl_main, cl_cmp, cl_skip_end, cl_result, cl_pc>>

coordVars == <<cfg, p2b, argv, pc, args, cmp_args, unknownargs, tmp,
               tmp_exists, tmp_files, main_bolt, cmp_bolt, main_out, main_err,
               cmp_out, cmp_err, out, err, main_binary, cmp_binary, binaries,
               timing_file, stdout, stderr, exit_status, exit_msg>>

logVars == <<cl_main, cl_cmp, cl_skip_end, cl_result, cl_pc>>

----------------------------------------------------------------------------
(* Bounds and generic helpers *)

\* longest log, in lines, given to a direct compare_logs call
MaxLen == 3

None == <<>>

Min(a, b) == IF a < b THEN a ELSE b

Max(a, b) == IF a > b THEN a ELSE b

SeqsUpTo(S, n) == UNION {[1..k -> S] : k \in 0..n}

\* phrase occurs in line as consecutive words
HasPhrase(line, phrase) ==
    \E i \in 1..Len(line) :
        /\ i + Len(phrase) - 1 <= Len(line)
        /\ SubSeq(line, i, i + Len(phrase) - 1) = phrase

----------------------------------------------------------------------------
(* Log lines used as inputs *)

LinePlainX == <<"x">>
LinePlainY == <<"y">>
LineVersion1 == <<"BOLT-INFO:", "BOLT", "version", "1">>
LineVersion2 == <<"BOLT-INFO:", "BOLT", "version", "2">>
LineArgs == <<"Args:", "-o", "out">>
LineDebugVersion == <<"BOLT-DEBUG:", "BOLT-INFO:", "BOLT", "version", "1">>

\* the alphabet of the direct compare_logs calls: a line no pattern matches,
\* two lines the first pattern matches (one of them also the third), and a
\* line only the second pattern matches
LogLines == {LinePlainX, LineVersion1, LineDebugVersion, LineArgs}

----------------------------------------------------------------------------
(* compare_logs and its helpers (lines 78-85, 139-159) *)

SKIP_MATCH == <<
    "BOLT-INFO: BOLT version",
    "^Args: ",
    "^BOLT-DEBUG:",
    "BOLT-INFO:.*data.*output data",
    "WARNING: reading perf data directly" >>

\* re.search(skip, line) for the five patterns, on lines given as words
re_search(skip, line) ==
    CASE skip = "BOLT-INFO: BOLT version" ->
            HasPhrase(line, <<"BOLT-INFO:", "BOLT", "version">>)
      [] skip = "^Args: " ->
            Len(line) >= 2 /\ line[1] = "Args:"
      [] skip = "^BOLT-DEBUG:" ->
            Len(line) >= 1 /\ line[1] = "BOLT-DEBUG:"
      [] skip = "BOLT-INFO:.*data.*output data" ->
            \E i, j, k \in 1..Len(line) :
                /\ i < j /\ j < k /\ k + 1 <= Len(line)
                /\ line[i] = "BOLT-INFO:" /\ line[j] = "data"
                /\ line[k] = "output" /\ line[k + 1] = "data"
      [] skip = "WARNING: reading perf data directly" ->
            HasPhrase(line, <<"WARNING:", "reading", "perf", "data", "directly">>)
      [] OTHER -> FALSE

\* list(zip(a, b))
zip(a, b) == [i \in 1..Min(Len(a), Len(b)) |-> <<a[i], b[i]>>]

\* SliceToNeg with the slice left out: every zipped pair is compared
SliceToNeg_whole(l, k) == l

\* the slice l[:-k]: its stop index is -k, and -0 is 0
SliceToNeg(l, k) ==
    SubSeq(l, 1, IF k = 0 THEN 0 ELSE Max(Len(l) - k, 0))

\* skip_loop with each line tested against the whole list on its own
skip_loop_separately(lhs, rhs, j) ==
    /\ \E k \in j..Len(SKIP_MATCH) : re_search(SKIP_MATCH[k], lhs)
    /\ \E k \in j..Len(SKIP_MATCH) : re_search(SKIP_MATCH[k], rhs)

\* the inner for/else over SKIP_MATCH from entry j on: TRUE when the loop
\* breaks (one entry matches both lines), FALSE when it runs to its else
RECURSIVE skip_loop(_, _, _)
skip_loop(lhs, rhs, j) ==
    IF j > Len(SKIP_MATCH) THEN FALSE
    ELSE IF re_search(SKIP_MATCH[j], lhs) /\ re_search(SKIP_MATCH[j], rhs)
         THEN TRUE
         ELSE skip_loop(lhs, rhs, j + 1)

\* the outer for loop from pair i on
RECURSIVE pair_loop(_, _)
pair_loop(pairs, i) ==
    IF i > Len(pairs) THEN None
    ELSE LET lhs == pairs[i][1]
             rhs == pairs[i][2]
         IN IF lhs # rhs /\ ~skip_loop(lhs, rhs, 1)
            THEN <<lhs, rhs>>
            ELSE pair_loop(pairs, i + 1)

compare_logs(main, cmp, skip_end) ==
    pair_loop(SliceToNeg(zip(main, cmp), skip_end), 1)

fmt_cmp(cmp_tuple) ==
    IF cmp_tuple = None THEN <<>>
    ELSE << <<"main:">>, cmp_tuple[1], <<"cmp:">>, cmp_tuple[2] >>

----------------------------------------------------------------------------
(* Configuration and command lines (lines 39-76) *)

BASE_BOLT == <<"base", "llvm-bolt.real">>

CMP_BOLT == <<"cmp", "llvm-bolt">>

PERF2BOLT_MODE == << <<"-aggregate-only">> >>

MINIMIZE_DIFFS == << <<"-bolt-info=0">> >>

\* the keys of BOLT_OUTPUT_OPTS, in the order they are added to the parser
BOLT_OUTPUT_OPTS == <<"o", "w">>

\* '-' + key, as a command-line token
Dash(key) == IF key = "o" THEN <<"-o">> ELSE <<"-w">>

Configs ==
    [verbose : BOOLEAN, keep_tmp : BOOLEAN, no_minimize : BOOLEAN,
     run_sequentially : BOOLEAN, compare_output : BOOLEAN,
     skip_binary_cmp : BOOLEAN]

\* the directory tempfile.mkdtemp() creates
TmpDir == <<"tmp", "tmpf9un">>

\* caller command lines: a token is a sequence of path components, the
\* empty string the empty sequence
Argvs == {
    << <<"in.exe">> >>,
    << <<"in.exe">>, <<"-o">>, <<>> >>,
    << <<"in.exe">>, <<"-o">>, <<"abc", "test.tmp">> >>,
    << <<"-w">>, <<"prof.fdata">>, <<"in.exe">>, <<"-o">>, <<"test.tmp">> >> }

----------------------------------------------------------------------------
(* Argument translation (lines 102-125, 193-203) *)

\* value of option key after parser.parse_known_args(): the token following
\* the last occurrence of the flag, None when the flag does not occur
RECURSIVE parsed_value(_, _, _, _)
parsed_value(tokens, key, i, found) ==
    IF i > Len(tokens) THEN found
    ELSE IF i < Len(tokens) /\ \E k \in 1..Len(BOLT_OUTPUT_OPTS) :
                                    tokens[i] = Dash(BOLT_OUTPUT_OPTS[k])
         THEN parsed_value(tokens, key, i + 2,
                           IF tokens[i] = Dash(key) THEN tokens[i + 1] ELSE found)
         ELSE parsed_value(tokens, key, i + 1, found)

\* the tokens parse_known_args() leaves over, in order
RECURSIVE parse_unknown(_, _)
parse_unknown(tokens, i) ==
    IF i > Len(tokens) THEN <<>>
    ELSE IF i < Len(tokens) /\ \E k \in 1..Len(BOLT_OUTPUT_OPTS) :
                                    tokens[i] = Dash(BOLT_OUTPUT_OPTS[k])
         THEN parse_unknown(tokens, i + 2)
         ELSE <<tokens[i]>> \o parse_unknown(tokens, i + 1)

\* vars(args).items() filtered on a truthy value: a dict, as the sequence of
\* its <<key, value>> items in insertion order
RECURSIVE preprocess_from(_, _)
preprocess_from(tokens, k) ==
    IF k > Len(BOLT_OUTPUT_OPTS) THEN <<>>
    ELSE LET key == BOLT_OUTPUT_OPTS[k]
             value == parsed_value(tokens, key, 1, None)
         IN (IF value # None THEN << <<key, value>> >> ELSE <<>>)
            \o preprocess_from(tokens, k + 1)

preprocess_args(tokens) == preprocess_from(tokens, 1)

RECURSIVE prepend_dash(_)
prepend_dash(items) ==
    IF items = <<>> THEN <<>>
    ELSE <<Dash(items[1][1]), items[1][2]>> \o prepend_dash(Tail(items))

basename(path) == IF path = <<>> THEN <<>> ELSE <<path[Len(path)]>>

path_join(dir, name) == dir \o name

replace_cmp_path(tmpdir, items) ==
    prepend_dash([i \in 1..Len(items) |->
                    <<items[i][1], path_join(tmpdir, basename(items[i][2]))>>])

\* list.index(x): 0 stands for the ValueError raised when x is not in l
index(l, x) ==
    IF \E i \in 1..Len(l) : l[i] = x
    THEN CHOOSE i \in 1..Len(l) : l[i] = x /\ \A j \in 1..(i - 1) : l[j] # x
    ELSE 0

----------------------------------------------------------------------------
(* Child processes (lines 87-100, 131-137) *)

NoProc == [state |-> "none", cmd |-> <<>>, returncode |-> 0,
           out |-> <<>>, err |-> <<>>]

\* run_bolt + run_cmd: the command line of a child
run_bolt(bolt_path, bolt_args) ==
    << <<"/usr/bin/time">>, <<"-f">>, <<"%e %M">>, bolt_path >> \o bolt_args
    \o (IF p2b THEN PERF2BOLT_MODE
        ELSE IF ~cfg.no_minimize THEN MINIMIZE_DIFFS ELSE <<>>)

Popen(cmd) == [state |-> "running", cmd |-> cmd, returncode |-> 0,
               out |-> <<>>, err |-> <<>>]

\* exit codes of a child that ends by itself
ExitCodes == {0, 1}

\* Popen.returncode of a child ended by proc.kill(): minus the signal number
KilledCode == -9

\* what the tool prints on its standard output
OutTexts == { <<LinePlainX>>, <<LinePlainY>> }

\* what the tool prints on its standard error
ErrBodies == { <<LinePlainX>>, <<LineVersion1>>, <<LineVersion2>> }

\* captured standard error of a child killed after the timeout
KilledErrs == { <<>>, <<LinePlainX>> }

\* the '%e %M' line /usr/bin/time appends for each run
TimeLine(bolt_path) ==
    IF bolt_path = BASE_BOLT THEN <<"0.10", "1024">> ELSE <<"0.20", "2048">>

\* standard error written by /usr/bin/time itself once the tool has ended
TimeOutput(rc, bolt_path) ==
    (IF rc # 0
     THEN << <<"Command", "exited", "with", "non-zero", "status", "1">> >>
     ELSE <<>>)
    \o <<TimeLine(bolt_path)>>

\* Popen.returncode -> exit status of the wrapper under sys.exit(returncode)
sys_exit_status(code) == code % 256

----------------------------------------------------------------------------
(* Output binaries and the external tools cmp and readelf (lines 161-178,   *)
(* 236-251)                                                                 *)

ELF_MAGIC == <<127, 69, 76, 70>>

File(bytes) == [exists |-> TRUE, bytes |-> bytes]

Missing == [exists |-> FALSE, bytes |-> <<>>]

\* byte 5 stands for the ELF headers, byte 6 for the section contents
FileElf == File(ELF_MAGIC \o <<2, 7>>)
FileElfBody == File(ELF_MAGIC \o <<2, 8>>)
FileElfHdr == File(ELF_MAGIC \o <<3, 7>>)
FileElfShort == File(ELF_MAGIC \o <<2>>)
FileRaw == File(<<0, 0, 0, 0, 2, 7>>)
FileRawBody == File(<<0, 0, 0, 0, 2, 8>>)

\* <<file at main_binary, file at cmp_binary>> when the binary stage runs
BinaryPairs == {
    <<FileElf, FileElf>>, <<FileElf, FileElfBody>>, <<FileElf, FileElfHdr>>,
    <<FileElf, FileElfShort>>, <<FileElf, FileRaw>>, <<FileRaw, FileRawBody>>,
    <<FileRaw, FileElf>>,
    <<FileElf, Missing>>, <<Missing, Missing>> }

\* 1-based offset of the first differing byte, 0 when there is none within
\* the shorter file
first_diff(a, b) ==
    LET n == Min(Len(a), Len(b))
    IN IF \E i \in 1..n : a[i] # b[i]
       THEN CHOOSE i \in 1..n : a[i] # b[i] /\ \A j \in 1..(i - 1) : a[j] = b[j]
       ELSE 0

\* subprocess.run(['cmp', a, b]): exit status 2 on a missing file, 1 when the
\* files differ, 0 otherwise; "differ: byte N" is on stdout only for a
\* differing byte (an EOF on the shorter file is reported on stderr)
cmp_run(a, b) ==
    IF ~a.exists \/ ~b.exists THEN [returncode |-> 2, stdout |-> <<>>]
    ELSE IF a.bytes = b.bytes THEN [returncode |-> 0, stdout |-> <<>>]
    ELSE [returncode |-> 1,
          stdout |-> IF first_diff(a.bytes, b.bytes) # 0
                     THEN << [byte |-> first_diff(a.bytes, b.bytes)] >>
                     ELSE <<>>]

\* f.read(4)
magic(f) == SubSeq(f.bytes, 1, Min(4, Len(f.bytes)))

\* readelf -We succeeds (check=True does not raise) on an ELF file only
readelf_ok(f) == f.exists /\ magic(f) = ELF_MAGIC /\ Len(f.bytes) >= 5

\* its standard output
readelf(f) ==
    << <<"ELF", "Header:">>,
       <<"Type:", IF f.bytes[5] = 2 THEN "EXEC" ELSE "DYN">> >>

compare_headers(lhs, rhs) == compare_logs(readelf(lhs), readelf(rhs), 0)

\* re.search(r'byte (\d+),', text) finds something
cmp_offset_found(text) == Len(text) > 0

parse_cmp_offset(text) == text[1].byte

----------------------------------------------------------------------------
(* The wrapper: main() (lines 191-263) *)

Init ==
    /\ cfg \in Configs
    /\ p2b \in BOOLEAN
    /\ argv \in Argvs
    /\ pc = "l192"
    /\ args = <<>> /\ cmp_args = <<>> /\ unknownargs = <<>>
    /\ tmp = <<>> /\ tmp_exists = FALSE /\ tmp_files = <<>>
    /\ main_bolt = NoProc /\ cmp_bolt = NoProc
    /\ main_out = <<>> /\ main_err = <<>> /\ cmp_out = <<>> /\ cmp_err = <<>>
    /\ out = None /\ err = None
    /\ main_binary = <<>> /\ cmp_binary = <<>>
    /\ binaries = <<>>
    /\ timing_file = <<>>
    /\ stdout = <<>> /\ stderr = <<>>
    /\ exit_status = -1 /\ exit_msg = ""
    /\ cl_main = <<>> /\ cl_cmp = <<>> /\ cl_skip_end = 0
    /\ cl_result = None /\ cl_pc = "off"

\* print(x) on the wrapper's standard output
print(kind, val) == stdout' = Append(stdout, [kind |-> kind, val |-> val])

\* exit(msg): the message goes to standard error, the status is 1
exit(msg) ==
    /\ stderr' = Append(stderr, [kind |-> "exit", val |-> msg])
    /\ exit_status' = 1
    /\ exit_msg' = msg
    /\ pc' = "done"

\* an uncaught exception: traceback on standard error, status 1
raise(exception) ==
    /\ stderr' = Append(stderr, [kind |-> "traceback", val |-> exception])
    /\ exit_status' = 1
    /\ exit_msg' = exception
    /\ pc' = "done"

\* lines 192-203
ParseArgs ==
    /\ pc = "l192"
    /\ unknownargs' = parse_unknown(argv, 1)
    /\ tmp' = TmpDir
    /\ tmp_exists' = TRUE
    /\ cmp_args' = replace_cmp_path(TmpDir, preprocess_args(argv))
    /\ args' = prepend_dash(preprocess_args(argv))
    /\ pc' = "l206"
    /\ UNCHANGED <<cfg, p2b, argv, tmp_files, main_bolt, cmp_bolt, main_out,
                   main_err, cmp_out, cmp_err, out, err, main_binary,
                   cmp_binary, binaries, timing_file, stdout, stderr,
                   exit_status, exit_msg>>
    /\ UNCHANGED logVars

\* run_cmd prints the command when VERBOSE
run_cmd_print(cmd) ==
    IF cfg.verbose THEN print("cmd", cmd) ELSE UNCHANGED stdout

\* launch_order with the two branches of the if statement exchanged
launch_order_swapped == IF cfg.run_sequentially THEN "l211" ELSE "l208"

\* line 207: the branch taken after the base run is launched
launch_order == IF cfg.run_sequentially THEN "l208" ELSE "l211"

\* lines 206-207
LaunchMain ==
    /\ pc = "l206"
    /\ main_bolt' = Popen(run_bolt(BASE_BOLT, unknownargs \o args))
    /\ run_cmd_print(run_bolt(BASE_BOLT, unknownargs \o args))
    /\ pc' = launch_order
    /\ UNCHANGED <<cfg, p2b, argv, args, cmp_args, unknownargs, tmp,
                   tmp_exists, tmp_files, cmp_bolt, main_out, main_err,
                   cmp_out, cmp_err, out, err, main_binary, cmp_binary,
                   binaries, timing_file, stderr, exit_status, exit_msg>>
    /\ UNCHANGED logVars

\* lines 209 and 211
LaunchCmp ==
    /\ pc \in {"l209", "l211"}
    /\ cmp_bolt' = Popen(run_bolt(CMP_BOLT, unknownargs \o cmp_args))
    /\ run_cmd_print(run_bolt(CMP_BOLT, unknownargs \o cmp_args))
    /\ pc' = IF pc = "l209" THEN "l213" ELSE "l212"
    /\ UNCHANGED <<cfg, p2b, argv, args, cmp_args, unknownargs, tmp,
                   tmp_exists, tmp_files, main_bolt, main_out, main_err,
                   cmp_out, cmp_err, out, err, main_binary, cmp_binary,
                   binaries, timing_file, stderr, exit_status, exit_msg>>
    /\ UNCHANGED logVars

\* a running child ends by itself: the tool's output and exit code, then
\* the lines of /usr/bin/time
child_exits(proc, bolt_path) ==
    { [proc EXCEPT !.state = "exited", !.returncode = rc, !.out = o,
                   !.err = e \o TimeOutput(rc, bolt_path)] :
        rc \in ExitCodes, o \in OutTexts, e \in ErrBodies }

MainExit ==
    /\ main_bolt.state = "running"
    /\ main_bolt' \in child_exits(main_bolt, BASE_BOLT)
    /\ UNCHANGED <<cfg, p2b, argv, pc, args, cmp_args, unknownargs, tmp,
                   tmp_exists, tmp_files, cmp_bolt, main_out, main_err,
                   cmp_out, cmp_err, out, err, main_binary, cmp_binary,
                   binaries, timing_file, stdout, stderr, exit_status,
                   exit_msg>>
    /\ UNCHANGED logVars

CmpExit ==
    /\ cmp_bolt.state = "running"
    /\ cmp_bolt' \in child_exits(cmp_bolt, CMP_BOLT)
    /\ UNCHANGED <<cfg, p2b, argv, pc, args, cmp_args, unknownargs, tmp,
                   tmp_exists, tmp_files, main_bolt, main_out, main_err,
                   cmp_out, cmp_err, out, err, main_binary, cmp_binary,
                   binaries, timing_file, stdout, stderr, exit_status,
                   exit_msg>>
    /\ UNCHANGED logVars

\* wait(proc): communicate() returns once the child has ended; if it is
\* still running when the timeout expires it is killed and communicate()
\* returns what was captured
wait(proc) ==
    IF proc.state = "exited" THEN { [proc EXCEPT !.state = "waited"] }
    ELSE IF proc.state = "running"
    THEN { [proc EXCEPT !.state = "killed", !.returncode = KilledCode,
                        !.out = <<>>, !.err = e] : e \in KilledErrs }
    ELSE {}

\* lines 208 and 212
WaitMain ==
    /\ pc \in {"l208", "l212"}
    /\ \E p \in wait(main_bolt) :
        /\ main_bolt' = p
        /\ main_out' = p.out
        /\ main_err' = p.err
    /\ pc' = IF pc = "l208" THEN "l209" ELSE "l213"
    /\ UNCHANGED <<cfg, p2b, argv, args, cmp_args, unknownargs, tmp,
                   tmp_exists, tmp_files, cmp_bolt, cmp_out, cmp_err, out,
                   err, main_binary, cmp_binary, binaries, timing_file,
                   stdout, stderr, exit_status, exit_msg>>
    /\ UNCHANGED logVars

\* line 213
WaitCmp ==
    /\ pc = "l213"
    /\ \E p \in wait(cmp_bolt) :
        /\ cmp_bolt' = p
        /\ cmp_out' = p.out
        /\ cmp_err' = p.err
    /\ pc' = "l216"
    /\ UNCHANGED <<cfg, p2b, argv, args, cmp_args, unknownargs, tmp,
                   tmp_exists, tmp_files, main_bolt, main_out, main_err, out,
                   err, main_binary, cmp_binary, binaries, timing_file,
                   stdout, stderr, exit_status, exit_msg>>
    /\ UNCHANGED logVars

\* log_stage_files with the comparison run's streams under both names
log_stage_files_cmp_only(o, e) ==
    ("main_bolt.stdout" :> cmp_out) @@ ("cmp_bolt.stdout" :> cmp_out) @@
    ("main_bolt.stderr" :> cmp_err) @@ ("cmp_bolt.stderr" :> cmp_err) @@
    ("summary.txt" :> (fmt_cmp(o) \o fmt_cmp(e)))

\* write_to(txt, os.path.join(tmp, name)) for the five files of lines 221-225
log_stage_files(o, e) ==
    ("main_bolt.stdout" :> main_out) @@ ("cmp_bolt.stdout" :> cmp_out) @@
    ("main_bolt.stderr" :> main_err) @@ ("cmp_bolt.stderr" :> cmp_err) @@
    ("summary.txt" :> (fmt_cmp(o) \o fmt_cmp(e)))

\* report_log_mismatch without line 220
report_log_mismatch_silent(o, e) ==
    /\ UNCHANGED stdout
    /\ tmp_files' = log_stage_files(o, e) @@ tmp_files
    /\ exit("exitcode or logs mismatch")

\* lines 220-226: the body of the if statement
report_log_mismatch(o, e) ==
    /\ print("tmp", tmp)
    /\ tmp_files' = log_stage_files(o, e) @@ tmp_files
    /\ exit("exitcode or logs mismatch")

\* log_stage_fails with the exit codes compared only under COMPARE_OUTPUT
log_stage_fails_guarded(o, e) ==
    cfg.compare_output /\ (\/ main_bolt.returncode # cmp_bolt.returncode
                           \/ o # None \/ e # None)

\* log_stage_fails with COMPARE_OUTPUT not consulted
log_stage_fails_always(o, e) ==
    \/ main_bolt.returncode # cmp_bolt.returncode
    \/ o # None \/ e # None

\* log_stage_fails as if lines 216-226 were part of the else branch of
\* line 210: the check is made in concurrent launch mode only
log_stage_fails_concurrent_only(o, e) ==
    /\ ~cfg.run_sequentially
    /\ \/ main_bolt.returncode # cmp_bolt.returncode
       \/ (cfg.compare_output /\ (o # None \/ e # None))

\* the condition of the if statement at lines 218-219
log_stage_fails(o, e) ==
    \/ main_bolt.returncode # cmp_bolt.returncode
    \/ (cfg.compare_output /\ (o # None \/ e # None))

\* lines 216-226
CompareLogs ==
    /\ pc = "l216"
    /\ out' = compare_logs(main_out, cmp_out, 0)
    /\ err' = compare_logs(main_err, cmp_err, 1)
    /\ IF log_stage_fails(out', err')
       THEN report_log_mismatch(out', err')
       ELSE /\ pc' = "l229"
            /\ UNCHANGED <<tmp_files, stdout, stderr, exit_status, exit_msg>>
    /\ UNCHANGED <<cfg, p2b, argv, args, cmp_args, unknownargs, tmp,
                   tmp_exists, main_bolt, cmp_bolt, main_out, main_err,
                   cmp_out, cmp_err, main_binary, cmp_binary, binaries,
                   timing_file>>
    /\ UNCHANGED logVars

\* get_real_from_stderr(log): '; '.join(log.splitlines()[-1].split()), the
\* fields of the last line
get_real_from_stderr(log) == log[Len(log)]

\* the line report_real_time appends: "{binary}; {main}; {cmp}\n"
timing_line(binary, m_err, c_err) ==
    <<binary, get_real_from_stderr(m_err), get_real_from_stderr(c_err)>>

\* lines 229-233, with report_real_time (lines 180-189)
ReportTime ==
    /\ pc = "l229"
    /\ IF index(args, <<"-o">>) = 0
       THEN \* args.index('-o') raises ValueError
            /\ raise("ValueError")
            /\ UNCHANGED <<main_binary, cmp_binary, timing_file>>
       ELSE /\ main_binary' = args[index(args, <<"-o">>) + 1]
            /\ cmp_binary' = cmp_args[index(cmp_args, <<"-o">>) + 1]
            /\ IF main_err = <<>> \/ cmp_err = <<>>
               THEN \* log.splitlines()[-1] raises IndexError
                    /\ raise("IndexError")
                    /\ UNCHANGED timing_file
               ELSE /\ timing_file' =
                        Append(timing_file,
                               timing_line(main_binary', main_err, cmp_err))
                    /\ pc' = "l235"
                    /\ UNCHANGED <<stderr, exit_status, exit_msg>>
    /\ UNCHANGED <<cfg, p2b, argv, args, cmp_args, unknownargs, tmp,
                   tmp_exists, tmp_files, main_bolt, cmp_bolt, main_out,
                   main_err, cmp_out, cmp_err, out, err, binaries, stdout>>
    /\ UNCHANGED logVars

\* not_elf with the test of line 242 inverted
not_elf_inverted(f) == magic(f) = ELF_MAGIC

\* lines 240-242: the first four bytes of main_binary are not the ELF magic
not_elf(f) == magic(f) # ELF_MAGIC

\* lines 238-254, for the two files f and g that cmp found to differ
binary_mismatch(f, g) ==
    LET cmp_proc == cmp_run(f, g)
    IN IF ~f.exists
       THEN \* open(main_binary, 'rb') raises
            /\ raise("FileNotFoundError")
            /\ UNCHANGED <<stdout, tmp_files>>
       ELSE IF not_elf(f)
       THEN /\ exit("output mismatch")
            /\ UNCHANGED <<stdout, tmp_files>>
       ELSE IF ~readelf_ok(f) \/ ~readelf_ok(g)
       THEN \* subprocess.run(..., check=True) raises
            /\ raise("CalledProcessError")
            /\ UNCHANGED <<stdout, tmp_files>>
       ELSE IF compare_headers(f, g) # None
       THEN /\ print("hdr", fmt_cmp(compare_headers(f, g)))
            /\ tmp_files' =
                 ("headers.txt" :> fmt_cmp(compare_headers(f, g))) @@ tmp_files
            /\ exit("headers mismatch")
       ELSE IF ~cmp_offset_found(cmp_proc.stdout)
       THEN \* re.search(...) is None: .groups() raises
            /\ raise("AttributeError")
            /\ UNCHANGED <<stdout, tmp_files>>
       ELSE /\ print("offset", parse_cmp_offset(cmp_proc.stdout))
            /\ exit("binaries mismatch")
            /\ UNCHANGED tmp_files

\* lines 235-254
CompareBinaries ==
    /\ pc = "l235"
    /\ IF cfg.skip_binary_cmp
       THEN /\ pc' = "l256"
            /\ UNCHANGED <<binaries, tmp_files, stdout, stderr, exit_status,
                           exit_msg>>
       ELSE \E pair \in BinaryPairs :
            /\ binaries' = pair
            /\ IF cmp_run(pair[1], pair[2]).returncode # 0
               THEN binary_mismatch(pair[1], pair[2])
               ELSE /\ pc' = "l256"
                    /\ UNCHANGED <<tmp_files, stdout, stderr, exit_status,
                                   exit_msg>>
    /\ UNCHANGED <<cfg, p2b, argv, args, cmp_args, unknownargs, tmp,
                   tmp_exists, main_bolt, cmp_bolt, main_out, main_err,
                   cmp_out, cmp_err, out, err, main_binary, cmp_binary,
                   timing_file>>
    /\ UNCHANGED logVars

\* removes_tmp with the workspace removed whatever KEEP_TMP says
removes_tmp_always == TRUE

\* line 257: whether shutil.rmtree(tmp) runs
removes_tmp == ~cfg.keep_tmp

\* lines 256-263
Finish ==
    /\ pc = "l256"
    /\ IF removes_tmp
       THEN tmp_exists' = FALSE /\ tmp_files' = <<>>
       ELSE UNCHANGED <<tmp_exists, tmp_files>>
    /\ print("text", main_out)
    /\ stderr' = Append(stderr, [kind |-> "text", val |-> main_err])
    /\ exit_status' = sys_exit_status(main_bolt.returncode)
    /\ exit_msg' = "success"
    /\ pc' = "done"
    /\ UNCHANGED <<cfg, p2b, argv, args, cmp_args, unknownargs, tmp,
                   main_bolt, cmp_bolt, main_out, main_err, cmp_out, cmp_err,
                   out, err, main_binary, cmp_binary, binaries, timing_file>>
    /\ UNCHANGED logVars

Next ==
    \/ ParseArgs
    \/ LaunchMain
    \/ LaunchCmp
    \/ MainExit
    \/ CmpExit
    \/ WaitMain
    \/ WaitCmp
    \/ CompareLogs
    \/ ReportTime
    \/ CompareBinaries
    \/ Finish

Spec == Init /\ [][Next]_vars

----------------------------------------------------------------------------
(* Direct calls of compare_logs: SpecLogs *)

\* skip_end as the callers pass it: default 0 (lines 171, 216), 1 (line 217)
SkipEnds == {0, 1}

InitLogs ==
    /\ cfg = [verbose |-> FALSE, keep_tmp |-> FALSE, no_minimize |-> FALSE,
              run_sequentially |-> FALSE, compare_output |-> FALSE,
              skip_binary_cmp |-> FALSE]
    /\ p2b = FALSE
    /\ argv = <<>>
    /\ pc = "off"
    /\ args = <<>> /\ cmp_args = <<>> /\ unknownargs = <<>>
    /\ tmp = <<>> /\ tmp_exists = FALSE /\ tmp_files = <<>>
    /\ main_bolt = NoProc /\ cmp_bolt = NoProc
    /\ main_out = <<>> /\ main_err = <<>> /\ cmp_out = <<>> /\ cmp_err = <<>>
    /\ out = None /\ err = None
    /\ main_binary = <<>> /\ cmp_binary = <<>>
    /\ binaries = <<>>
    /\ timing_file = <<>>
    /\ stdout = <<>> /\ stderr = <<>>
    /\ exit_status = -1 /\ exit_msg = ""
    /\ cl_main \in SeqsUpTo(LogLines, MaxLen)
    /\ cl_cmp \in SeqsUpTo(LogLines, MaxLen)
    /\ cl_skip_end \in SkipEnds
    /\ cl_result = None
    /\ cl_pc = "call"

CallCompareLogs ==
    /\ cl_pc = "call"
    /\ cl_result' = compare_logs(cl_main, cl_cmp, cl_skip_end)
    /\ cl_pc' = "ret"
    /\ UNCHANGED <<cl_main, cl_cmp, cl_skip_end>>
    /\ UNCHANGED coordVars

NextLogs == CallCompareLogs

SpecLogs == InitLogs /\ [][NextLogs]_vars

----------------------------------------------------------------------------
(* Vocabulary of the properties *)

\* wait() has returned for both children
BothAwaited ==
    /\ main_bolt.state \in {"waited", "killed"}
    /\ cmp_bolt.state \in {"waited", "killed"}

\* main() has executed the if statement of lines 218-226
PastLogStage == pc \in {"l229", "l235", "l256", "done"}

LogMismatch == "exitcode or logs mismatch"

\* the messages of the five exit(...) calls
FatalMessages ==
    {LogMismatch, "output mismatch", "headers mismatch", "binaries mismatch"}

\* one entry of the noise-pattern list matches both lines
Tolerated(lhs, rhs) ==
    \E k \in 1..Len(SKIP_MATCH) :
        re_search(SKIP_MATCH[k], lhs) /\ re_search(SKIP_MATCH[k], rhs)

\* a pair of lines that differ and are not tolerated
Untolerated(lhs, rhs) == lhs # rhs /\ ~Tolerated(lhs, rhs)

\* pair is the first untolerated pair of a and b among positions 1..n
FirstUntolerated(pair, a, b, n) ==
    \E i \in 1..n :
        /\ pair = <<a[i], b[i]>>
        /\ Untolerated(a[i], b[i])
        /\ \A j \in 1..(i - 1) : ~Untolerated(a[j], b[j])

DropLast(s) == IF s = <<>> THEN <<>> ELSE SubSeq(s, 1, Len(s) - 1)

\* the workspace path has been printed on standard output
TmpPrinted ==
    \E i \in 1..Len(stdout) : stdout[i].kind = "tmp" /\ stdout[i].val = tmp

----------------------------------------------------------------------------
(* C1 *)

\* C1: whatever the configuration flags and the captured logs, once both
\* runs are awaited with different exit codes the wrapper never gets past
\* the log/exit-code stage: no timing record is written, the binaries are
\* never compared, the workspace exists, and when the wrapper has ended it
\* has ended with "exitcode or logs mismatch" and a non-zero status.
C1_ExitCodeMismatchFatal ==
    (BothAwaited /\ main_bolt.returncode # cmp_bolt.returncode) =>
        /\ pc \in {"l216", "done"}
        /\ timing_file = <<>>
        /\ binaries = <<>>
        /\ tmp_exists
        /\ (pc = "done" => exit_msg = LogMismatch /\ exit_status > 0)

C1_Witness ==
    /\ pc = "done"
    /\ main_bolt.returncode # cmp_bolt.returncode
    /\ ~cfg.compare_output
    /\ cfg.skip_binary_cmp
    /\ exit_msg = LogMismatch
    /\ exit_status = 1

----------------------------------------------------------------------------
(* C2 *)

\* the two runs behaved identically: both ended by themselves with the same
\* exit code, the same standard output and the same standard error up to
\* the timing line, and wrote the same output file
IdenticalRuns ==
    /\ main_bolt.state = "waited" /\ cmp_bolt.state = "waited"
    /\ main_bolt.returncode = cmp_bolt.returncode
    /\ main_out = cmp_out
    /\ DropLast(main_err) = DropLast(cmp_err)
    /\ (binaries # <<>> => binaries[1] = binaries[2])

\* C2: with compare_output enabled, every run of the wrapper on two
\* identically behaving executables ends in the full-match outcome with
\* exit status 0 and exactly one line appended to the timing log.
C2_IdenticalRunsMatch ==
    (pc = "done" /\ cfg.compare_output /\ IdenticalRuns) =>
        /\ exit_msg = "success"
        /\ exit_status = 0
        /\ Len(timing_file) = 1

----------------------------------------------------------------------------
(* C3 *)

\* C3: at terminal success the wrapper's exit status equals the base run's
\* exit code, the base run's stdout and stderr have been re-emitted on the
\* wrapper's stdout and stderr, and nothing printed is the comparison run's
\* output.
C3_SuccessIsTransparent ==
    (pc = "done" /\ exit_msg = "success") =>
        /\ exit_status = main_bolt.returncode
        /\ stdout # <<>>
        /\ stdout[Len(stdout)].kind = "text"
        /\ stdout[Len(stdout)].val = main_out
        /\ stderr # <<>>
        /\ stderr[Len(stderr)].kind = "text"
        /\ stderr[Len(stderr)].val = main_err
        /\ \A i \in 1..(Len(stdout) - 1) : stdout[i].kind = "cmd"
        /\ Len(stderr) = 1

----------------------------------------------------------------------------
(* C4 *)

\* C4: with compare_output enabled and equal exit codes, whenever the two
\* captured stdout streams hold an untolerated differing pair at a common
\* line position, the log comparison returns the first such pair and the
\* wrapper ends with "exitcode or logs mismatch" without reaching the
\* binary stage.
C4_StdoutMismatchFatal ==
    (/\ PastLogStage
     /\ cfg.compare_output
     /\ main_bolt.returncode = cmp_bolt.returncode
     /\ \E i \in 1..Min(Len(main_out), Len(cmp_out)) :
            Untolerated(main_out[i], cmp_out[i])) =>
        /\ pc = "done"
        /\ exit_msg = LogMismatch
        /\ FirstUntolerated(out, main_out, cmp_out,
                            Min(Len(main_out), Len(cmp_out)))
        /\ binaries = <<>>

----------------------------------------------------------------------------
(* C5 *)

\* number of positional pairs a compare_logs call compares
ComparedRange(a, b, skip_end) == Len(SliceToNeg(zip(a, b), skip_end))

\* C5: compare_logs treats a differing positional pair inside the compared
\* range as equal exactly when one single entry of SKIP_MATCH matches both
\* lines: it returns None iff every compared pair is equal or tolerated by
\* one entry, and otherwise returns the first compared pair that differs
\* and has no entry matching both of its lines.
C5_ToleratedIffOneEntryMatchesBoth ==
    cl_pc = "ret" =>
        LET n == ComparedRange(cl_main, cl_cmp, cl_skip_end)
        IN /\ (cl_result = None) <=>
                (\A i \in 1..n : \/ cl_main[i] = cl_cmp[i]
                                 \/ Tolerated(cl_main[i], cl_cmp[i]))
           /\ (cl_result # None) =>
                FirstUntolerated(cl_result, cl_main, cl_cmp, n)

\* a pair whose lines match different entries only is returned
C5_Witness ==
    /\ cl_pc = "ret"
    /\ cl_skip_end = 1
    /\ Len(cl_main) = 3 /\ Len(cl_cmp) = 3
    /\ Tolerated(cl_main[1], cl_cmp[1]) /\ cl_main[1] # cl_cmp[1]
    /\ cl_result = <<LineVersion1, LineArgs>>

----------------------------------------------------------------------------
(* C6 *)

\* C6: compare_logs with skip_end=1 compares the two streams with the final
\* line of each left out and nothing else: it returns None iff the streams
\* without their final lines have no untolerated differing pair at a common
\* position (so streams differing only in the final line give None), and
\* otherwise it returns the first such pair.
C6_SkipsExactlyFinalLine ==
    (cl_pc = "ret" /\ cl_skip_end = 1) =>
        LET m == DropLast(cl_main)
            c == DropLast(cl_cmp)
            n == Min(Len(m), Len(c))
        IN /\ (m = c => cl_result = None)
           /\ (cl_result = None) <=>
                (\A i \in 1..n : ~Untolerated(m[i], c[i]))
           /\ (cl_result # None) => FirstUntolerated(cl_result, m, c, n)

\* streams that differ only in their final line, untolerated there
C6_Witness ==
    /\ cl_pc = "ret"
    /\ cl_skip_end = 1
    /\ Len(cl_main) = 3 /\ Len(cl_cmp) = 3
    /\ DropLast(cl_main) = DropLast(cl_cmp)
    /\ Untolerated(cl_main[3], cl_cmp[3])
    /\ cl_result = None

----------------------------------------------------------------------------
(* C7 *)

----------------------------------------------------------------------------
(* C8 *)

\* C8: once created, the workspace is gone iff the wrapper has reached
\* terminal success with keep_tmp false; it exists while the wrapper runs
\* and after every failing termination.
C8_WorkspaceDeletedIffSuccess ==
    pc # "l192" =>
        /\ (~tmp_exists) <=>
              (pc = "done" /\ exit_msg = "success" /\ ~cfg.keep_tmp)
        /\ (pc # "done" => tmp_exists)
        /\ (pc = "done" /\ exit_msg # "success" => tmp_exists)

C8_Witness ==
    /\ pc = "done"
    /\ exit_msg = "success"
    /\ ~cfg.keep_tmp
    /\ ~cfg.skip_binary_cmp
    /\ ~tmp_exists

----------------------------------------------------------------------------
(* C9 *)

\* C9 as stated: on every fatal termination (exit-code mismatch, log
\* mismatch, output mismatch, headers mismatch, binaries mismatch) the
\* workspace path has been printed on standard output.
C9_EveryFatalPrintsTmp ==
    (pc = "done" /\ exit_msg \in FatalMessages) => TmpPrinted

\* C9 amended: on every fatal termination of the log/exit-code stage the
\* workspace path has been printed on standard output before the wrapper
\* ends; the terminations of the binary stage print no workspace path.
C9_LogStageFatalPrintsTmp ==
    /\ (pc = "done" /\ exit_msg = LogMismatch) => TmpPrinted
    /\ (pc = "done" /\ exit_msg \in FatalMessages \ {LogMismatch}) =>
          ~TmpPrinted

C9_Witness ==
    /\ pc = "done"
    /\ exit_msg = LogMismatch
    /\ cfg.compare_output
    /\ main_bolt.returncode = cmp_bolt.returncode
    /\ TmpPrinted

----------------------------------------------------------------------------
(* C10 *)

\* the four stream files hold the captured streams
StreamFilesWritten ==
    /\ {"main_bolt.stdout", "cmp_bolt.stdout", "main_bolt.stderr",
        "cmp_bolt.stderr"} \subseteq DOMAIN tmp_files
    /\ tmp_files["main_bolt.stdout"] = main_out
    /\ tmp_files["cmp_bolt.stdout"] = cmp_out
    /\ tmp_files["main_bolt.stderr"] = main_err
    /\ tmp_files["cmp_bolt.stderr"] = cmp_err

----------------------------------------------------------------------------
(* C11 *)

Launched(proc) == proc.state # "none"

\* wait(proc) has returned: the child exited, or was killed after the timeout
Awaited(proc) == proc.state \in {"waited", "killed"}

\* C11: with run_sequentially the comparison run is launched only once the
\* base run is awaited; without it, neither run is awaited before both are
\* launched.  In both modes the base run is launched first, and main() is at
\* or past the comparisons (line 216 on) only with both runs awaited.
C11_LaunchOrder ==
    /\ (cfg.run_sequentially /\ Launched(cmp_bolt)) => Awaited(main_bolt)
    /\ (~cfg.run_sequentially /\ (Awaited(main_bolt) \/ Awaited(cmp_bolt))) =>
          (Launched(main_bolt) /\ Launched(cmp_bolt))
    /\ Launched(cmp_bolt) => Launched(main_bolt)
    /\ (pc \in {"l216", "l229", "l235", "l256", "done"}) =>
          (Awaited(main_bolt) /\ Awaited(cmp_bolt))
    /\ (out # None \/ err # None \/ binaries # <<>>) =>
          (Awaited(main_bolt) /\ Awaited(cmp_bolt))

\* sequential mode: the comparison run is running, the base run was killed
\* after the timeout
C11_Witness ==
    /\ cfg.run_sequentially
    /\ pc = "l213"
    /\ main_bolt.state = "killed"
    /\ cmp_bolt.state = "running"

----------------------------------------------------------------------------
(* C12 *)

\* how the binary stage ends for the output files f and g, as a function of
\* the two files alone
BinaryVerdict(f, g) ==
    IF f.exists /\ g.exists /\ f.bytes = g.bytes THEN "success"
    ELSE IF ~f.exists THEN "FileNotFoundError"
    ELSE IF magic(f) # ELF_MAGIC THEN "output mismatch"
    ELSE IF ~readelf_ok(f) \/ ~readelf_ok(g) THEN "CalledProcessError"
    ELSE IF compare_headers(f, g) # None THEN "headers mismatch"
    ELSE IF first_diff(f.bytes, g.bytes) = 0 THEN "AttributeError"
    ELSE "binaries mismatch"

\* how an invocation ends, as a function of its fixed inputs: the
\* configuration without run_sequentially, the arguments, what each child
\* produced (exit code, stdout, stderr) and the output files
VerdictOfInputs ==
    IF \/ main_bolt.returncode # cmp_bolt.returncode
       \/ /\ cfg.compare_output
          /\ \/ compare_logs(main_bolt.out, cmp_bolt.out, 0) # None
             \/ compare_logs(main_bolt.err, cmp_bolt.err, 1) # None
    THEN LogMismatch
    ELSE IF ~\E i \in 1..(Len(argv) - 1) :
                 argv[i] = <<"-o">> /\ argv[i + 1] # <<>>
    THEN "ValueError"
    ELSE IF main_bolt.err = <<>> \/ cmp_bolt.err = <<>> THEN "IndexError"
    ELSE IF cfg.skip_binary_cmp THEN "success"
    ELSE BinaryVerdict(binaries[1], binaries[2])

\* the exit status that goes with it
StatusOfInputs ==
    IF VerdictOfInputs = "success"
    THEN IF main_bolt.returncode >= 0 THEN main_bolt.returncode
         ELSE main_bolt.returncode + 256
    ELSE 1

\* C12: the verdict and the exit status of a finished invocation are
\* determined by its fixed inputs, none of which is run_sequentially: the
\* sequential and the concurrent launch mode end alike on the same inputs,
\* under every interleaving of the two children.
C12_VerdictIndependentOfLaunchMode ==
    pc = "done" =>
        /\ exit_msg = VerdictOfInputs
        /\ exit_status = StatusOfInputs

\* a sequential invocation whose children printed different stdout, compared
\* nothing of it, and ended in the binary stage with a mismatch
C12_Witness ==
    /\ pc = "done"
    /\ cfg.run_sequentially
    /\ ~cfg.compare_output
    /\ main_out # cmp_out
    /\ exit_msg = "binaries mismatch"

----------------------------------------------------------------------------
(* C13 *)

Killed(proc) == proc.state = "killed"

\* C13: an invocation one of whose children was killed at the wait timeout
\* still ends in a defined verdict, whatever was captured from the child:
\* with an output file named and the binary comparison skipped, it ends in
\* success or in the exit-code/log mismatch, never with an exception.
C13_TimeoutNeverAborts ==
    (/\ pc = "done"
     /\ Killed(main_bolt) \/ Killed(cmp_bolt)
     /\ index(args, <<"-o">>) # 0
     /\ cfg.skip_binary_cmp) =>
        exit_msg \in {"success", LogMismatch}

----------------------------------------------------------------------------
(* C14 *)

\* the binary stage compared two existing output files that differ in a byte
OutputsDiffer ==
    /\ binaries # <<>>
    /\ binaries[1].exists /\ binaries[2].exists
    /\ binaries[1].bytes # binaries[2].bytes

HeaderDumpsDiffer ==
    \E i \in 1..Min(Len(readelf(binaries[1])), Len(readelf(binaries[2]))) :
        readelf(binaries[1])[i] # readelf(binaries[2])[i]

\* C14: when the two output files differ in a byte, both are ELF files, and
\* some line of their two readelf dumps differs, the invocation ends in
\* "headers mismatch" with headers.txt written to the workspace.
C14_DifferingHeaderLineIsHeadersMismatch ==
    (/\ pc = "done"
     /\ OutputsDiffer
     /\ readelf_ok(binaries[1]) /\ readelf_ok(binaries[2])
     /\ HeaderDumpsDiffer) =>
        /\ exit_msg = "headers mismatch"
        /\ "headers.txt" \in DOMAIN tmp_files

----------------------------------------------------------------------------
(* C15 *)

Printed(kind) == \E i \in 1..Len(stdout) : stdout[i].kind = kind

\* the terminations that lie behind the header comparison of line 245
HeadersCompared ==
    pc = "done" /\ exit_msg \in {"headers mismatch", "binaries mismatch",
                                 "AttributeError"}

\* C15: when the two output files differ in a byte and the first four bytes
\* of the base run's output are not 7f 45 4c 46, the invocation ends in
\* "output mismatch", having printed neither a header difference nor a byte
\* offset and written no headers.txt; and the header comparison is made
\* only on two files that both start with the ELF magic.
C15_NonElfIsOutputMismatch ==
    /\ (/\ pc = "done"
        /\ OutputsDiffer
        /\ SubSeq(binaries[1].bytes, 1, 4) # <<127, 69, 76, 70>>) =>
            /\ exit_msg = "output mismatch"
            /\ exit_status = 1
            /\ ~Printed("hdr") /\ ~Printed("offset")
            /\ "headers.txt" \notin DOMAIN tmp_files
    /\ HeadersCompared =>
            /\ SubSeq(binaries[1].bytes, 1, 4) = <<127, 69, 76, 70>>
            /\ SubSeq(binaries[2].bytes, 1, 4) = <<127, 69, 76, 70>>

\* a non-ELF base output against an ELF comparison output
C15_Witness ==
    /\ pc = "done"
    /\ binaries = <<FileRaw, FileElf>>
    /\ exit_msg = "output mismatch"

----------------------------------------------------------------------------
(* C16 *)

\* the binary stage compared two existing, byte-identical output files
OutputsIdentical ==
    /\ binaries # <<>>
    /\ binaries[1].exists /\ binaries[2].exists
    /\ binaries[1].bytes = binaries[2].bytes

\* C16: when the two output files are ELF files that are not byte-identical
\* and have identical readelf dumps, the invocation ends in "binaries
\* mismatch" after printing a byte offset, and prints no header difference;
\* when they are byte-identical the binary stage reports nothing and the
\* invocation ends in success.
C16_IdenticalHeadersIsBinariesMismatch ==
    /\ (/\ pc = "done"
        /\ OutputsDiffer
        /\ readelf_ok(binaries[1]) /\ readelf_ok(binaries[2])
        /\ readelf(binaries[1]) = readelf(binaries[2])) =>
            /\ exit_msg = "binaries mismatch"
            /\ Printed("offset")
            /\ ~Printed("hdr")
    /\ (pc = "done" /\ OutputsIdentical) =>
            /\ exit_msg = "success"
            /\ ~Printed("offset") /\ ~Printed("hdr")

----------------------------------------------------------------------------
(* C17 *)

\* C17: an invocation without -o whose exit-code/log stage passed appends
\* one timing line and ends in success with the base run's exit code.
C17_NoOutputFlagIsNoError ==
    (/\ pc = "done"
     /\ index(args, <<"-o">>) = 0
     /\ exit_msg # LogMismatch) =>
        /\ Len(timing_file) = 1
        /\ exit_msg = "success"
        /\ exit_status = sys_exit_status(main_bolt.returncode)

----------------------------------------------------------------------------
(* C18 *)

\* position i of the caller's command line holds an output flag, or the
\* path that follows one
IsFlag(i) == argv[i] \in {Dash("o"), Dash("w")}
IsPath(i) == i > 1 /\ IsFlag(i - 1)

PassThrough == {i \in 1..Len(argv) : ~IsFlag(i) /\ ~IsPath(i)}

\* l holds the tokens of argv at the positions idx, in their order
Enumerates(l, idx) ==
    /\ Len(l) = Cardinality(idx)
    /\ \E f \in [1..Len(l) -> idx] :
        /\ \A j, k \in 1..Len(l) : j < k => f[j] < f[k]
        /\ \A j \in 1..Len(l) : l[j] = argv[f[j]]

\* bolt_args holds the flag of key followed by path
Receives(bolt_args, key, path) ==
    \E j \in 1..(Len(bolt_args) - 1) :
        bolt_args[j] = Dash(key) /\ bolt_args[j + 1] = path

Lacks(bolt_args, key) == \A j \in 1..Len(bolt_args) : bolt_args[j] # Dash(key)

\* the arguments of a launched child, between the tool path and the options
\* the wrapper adds
BoltArgs(proc) ==
    SubSeq(proc.cmd, 5,
           Len(proc.cmd) - (IF p2b \/ ~cfg.no_minimize THEN 1 ELSE 0))

\* the last component of a path
BaseName(path) == IF path = <<>> THEN <<>> ELSE <<path[Len(path)]>>

ForwardedTo(proc, key, dir) ==
    /\ Enumerates(SubSeq(BoltArgs(proc), 1, Cardinality(PassThrough)),
                  PassThrough)
    /\ \A i \in 1..(Len(argv) - 1) :
         argv[i] = Dash(key) =>
            Receives(BoltArgs(proc), key,
                     IF dir = None THEN argv[i + 1]
                     ELSE dir \o BaseName(argv[i + 1]))
    /\ (\A i \in 1..Len(argv) : argv[i] # Dash(key)) =>
            Lacks(BoltArgs(proc), key)

\* C18: both children are launched with the caller's pass-through tokens in
\* their order; the base run with each output flag of the command line and
\* the caller's path, the comparison run with each output flag and the
\* workspace directory joined to the base name of the caller's path; an
\* output flag that is not on the command line is on neither child's.
C18_ArgumentsForwarded ==
    \A key \in {"o", "w"} :
        /\ Launched(main_bolt) => ForwardedTo(main_bolt, key, None)
        /\ Launched(cmp_bolt) => ForwardedTo(cmp_bolt, key, tmp)

----------------------------------------------------------------------------
(* C19 *)

\* C19: a finished invocation has appended a timing line exactly when its
\* exit-code/log stage passed, and then one line only; the line is there
\* from the start of the binary stage on; it names the base run's output
\* path and the last stderr line of the base run and of the comparison run.
C19_TimingLineIffLogStagePasses ==
    /\ Len(timing_file) <= 1
    /\ pc = "done" => (Len(timing_file) = 1 <=> exit_msg # LogMismatch)
    /\ pc \in {"l235", "l256"} => Len(timing_file) = 1
    /\ Len(timing_file) = 1 =>
         /\ PastLogStage
         /\ \E i \in 1..(Len(argv) - 1) :
              argv[i] = <<"-o">> /\ timing_file[1][1] = argv[i + 1]
         /\ timing_file[1][2] = main_err[Len(main_err)]
         /\ timing_file[1][3] = cmp_err[Len(cmp_err)]

----------------------------------------------------------------------------
(* C20 *)

\* C20: success is reached only with both children awaited, equal exit
\* codes, compare_output off or both log comparisons returning no mismatch,
\* and skip_binary_cmp on or byte-identical output files; every finished
\* invocation has ended in success or in one of the four mismatch outcomes;
\* after a failing outcome the workspace is still there and the base run's
\* streams have not been re-emitted.
C20_VerdictInvariant ==
    /\ (pc = "done" /\ exit_msg = "success") =>
         /\ BothAwaited
         /\ main_bolt.returncode = cmp_bolt.returncode
         /\ \/ ~cfg.compare_output
            \/ /\ compare_logs(main_out, cmp_out, 0) = None
               /\ compare_logs(main_err, cmp_err, 1) = None
         /\ cfg.skip_binary_cmp \/ OutputsIdentical
    /\ pc = "done" => exit_msg \in {"success"} \cup FatalMessages
    /\ (pc = "done" /\ exit_msg # "success") =>
         /\ tmp_exists
         /\ ~Printed("text")
         /\ \A i \in 1..Len(stderr) : stderr[i].kind # "text"

====
